---- MODULE Spec2Model ----
(***************************************************************************)
(* Model of yaets (src/src/yaets/tracing.cpp, include/yaets/tracing.hpp):  *)
(* TraceSession (event queue + background consumer thread writing the      *)
(* trace file), TraceGuard (scoped event), NamedSharedTrace (ring buffer   *)
(* of pending start instants) and TraceRegistry (id -> NamedSharedTrace).  *)
(*                                                                         *)
(* Application threads are the set Threads; the consumer thread of the     *)
(* session is a separate process with program counter wpc.  Every member   *)
(* function is split at the points where another thread can interfere      *)
(* (mutex acquisition, condition-variable wait, atomic loads and stores).  *)
(***************************************************************************)
EXTENDS Integers, Sequences, FiniteSets, TLC

(* ---------------------------- bounds ----------------------------------- *)
MaxOps == 4              \* public member-function calls made by the threads
MaxTraceOps == 6         \* the same, where only start() and end() are called
MaxRegistryOps == 5      \* the same, where only the TraceRegistry is called
MaxClock == 3            \* last instant the clock reaches
TRACE_SIZE_INIT == 2     \* length of start_times_ (100 in tracing.hpp:225)
MaxEndToEndOps == 7      \* calls of the thread that traces and then stops
MaxGuardOps == 3         \* TraceGuard objects constructed by the threads
MaxSigLen == 4           \* longest string given to extract_trace_name
MaxFairOps == 3          \* calls made in the runs checked for progress
MaxLockOps == 4          \* calls made where every mutex is in play

(* ---------------------------- constants of the model ------------------- *)
InitialClock == 2        \* instant at which the TraceSession is constructed
FREE == 0 - 1            \* a mutex nobody holds
CONSUMER == 0            \* the consumer thread as a mutex holder

Threads == {1, 2}        \* the application threads
\* arguments <<name, start, end>> passed to register_trace by callers: an
\* instant before and one after the construction of the session
ArgEvents == {<<"f", 0, 13>>, <<"g", 13, 0>>}
Ids == {"x", "y"}        \* identifiers used with the TraceRegistry
DirectTraces == {"s"}    \* NamedSharedTrace objects built by the application
TraceNames == DirectTraces \cup Ids
\* characters of the strings given to extract_trace_name
SigChars == {"f", ")", " ", "("}
Signatures == UNION {[1 .. n -> SigChars] : n \in 0 .. MaxSigLen}
\* the names TraceGuard objects are constructed with: "f()" and "v g(i)"
GuardSignatures == {<<"f", "(", ")">>, <<"v", " ", "g", "(", "i", ")">>}

VARIABLES
  now,                   \* high_resolution_clock::now().time_since_epoch()
  \* TraceSession
  running, trace_queue, queue_mutex, consumer_joinable,
  session_start_time_, trace_file, file_state, wpc,
  \* NamedSharedTrace objects, by trace_name_
  trace, trace_mutex_,
  \* TraceRegistry
  traces_, mutex_,
  \* TraceGuard objects, one per thread at a time
  guard,
  \* application threads
  pc, ret, tret, ev, cur, ops,
  \* history (not read by the program)
  raw, pushed, stopCalls, stopsDone, stopIdx, stopReturned,
  firstStopReturned, queuedAtStop, joins, joinThrew, starts, ends, calls,
  span

sinkVars == <<running, trace_queue, queue_mutex, consumer_joinable,
              session_start_time_, trace_file, file_state, wpc>>
traceVars == <<trace, trace_mutex_>>
regVars == <<traces_, mutex_>>
threadVars == <<pc, ret, tret, ev, cur, ops, raw>>
stopHist == <<stopCalls, stopsDone, stopIdx, stopReturned, firstStopReturned,
              queuedAtStop, joins, joinThrew>>
traceHist == <<starts, ends, calls>>
vars == <<now, guard, span, sinkVars, traceVars, regVars, threadVars,
          pushed, stopHist, traceHist>>

(* ---------------------------- serialisation ---------------------------- *)
DigitChar(d) == <<"0", "1", "2", "3", "4", "5", "6", "7", "8", "9">>[d + 1]

RECURSIVE NatToStr(_)
NatToStr(n) ==
  IF n < 10 THEN <<DigitChar(n)>>
  ELSE NatToStr(n \div 10) \o <<DigitChar(n % 10)>>

\* operator<< of a signed integer count
IntToStr(n) == IF n < 0 THEN <<"-">> \o NatToStr(0 - n) ELSE NatToStr(n)

\* one line of the trace file, as the characters written to the stream
Line(e) ==
  <<e.trace_name, " ">> \o IntToStr(e.start_time) \o <<" ">>
     \o IntToStr(e.end_time) \o <<"\n">>

\* mutant: the instants are stored as passed, not relative to the session
MakeEventAbsolute(name, start, end) ==
  [trace_name |-> name, start_time |-> start, end_time |-> end]

\* the TraceEvent built by register_trace
MakeEvent(name, start, end) ==
  [trace_name |-> name,
   start_time |-> start - session_start_time_,
   end_time |-> end - session_start_time_]

NoEvent == [trace_name |-> "", start_time |-> 0, end_time |-> 0]

\* lines 127-131: a NamedSharedTrace as constructed; start_times_[i + 1]
\* is the element i of the vector
FreshTrace ==
  [counter_push_ |-> 0, counter_pop_ |-> 0, elements_ |-> 0,
   start_times_ |-> [i \in 1 .. TRACE_SIZE_INIT |-> 0]]

\* no TraceGuard is alive on the thread; built and ended count the guards
\* the thread has constructed and destroyed, born is the instant of the
\* latest construction and lives the record of the guards destroyed
NoGuard ==
  [alive |-> FALSE, trace_name_ |-> <<>>, start_time_ |-> 0,
   signature |-> <<>>, born |-> 0, built |-> 0, ended |-> 0, lives |-> <<>>]

\* history of a thread between the return of its startTrace(id) and the
\* end of its next endTrace(id): the instant startTrace returned (ret) and
\* the instant endTrace was called (call), -1 when it has not happened
NoSpan == [id |-> "", ret |-> 0 - 1, call |-> 0 - 1]

(* ---------------------------- initial state ---------------------------- *)
InitWith(budget) ==
  /\ now = InitialClock
  /\ running = TRUE
  /\ trace_queue = <<>>
  /\ queue_mutex = FREE
  /\ consumer_joinable = TRUE
  /\ session_start_time_ = InitialClock
  /\ trace_file = <<>>
  /\ file_state = "unopened"
  /\ wpc = "start"
  /\ trace = [o \in TraceNames |-> FreshTrace]
  /\ trace_mutex_ = [o \in TraceNames |-> FREE]
  /\ traces_ = {}
  /\ mutex_ = FREE
  /\ pc = [t \in Threads |-> "idle"]
  /\ ret = [t \in Threads |-> "idle"]
  /\ tret = [t \in Threads |-> "idle"]
  /\ ev = [t \in Threads |-> NoEvent]
  /\ cur = [t \in Threads |-> "s"]
  /\ ops = budget
  /\ pushed = <<>>
  /\ stopCalls = 0
  /\ stopsDone = 0
  /\ queuedAtStop = 0
  /\ raw = [t \in Threads |-> <<"", 0, 0>>]
  /\ stopIdx = [t \in Threads |-> 0]
  /\ stopReturned = FALSE
  /\ firstStopReturned = FALSE
  /\ joins = 0
  /\ joinThrew = FALSE
  /\ starts = [o \in TraceNames |-> <<>>]
  /\ ends = [o \in TraceNames |-> <<>>]
  /\ calls = [o \in TraceNames |-> <<>>]
  /\ guard = [t \in Threads |-> NoGuard]
  /\ span = [t \in Threads |-> NoSpan]

Init == InitWith(MaxOps)

\* time passes
Tick ==
  /\ now < MaxClock
  /\ now' = now + 1
  /\ UNCHANGED <<guard, span, sinkVars, traceVars, regVars, threadVars,
                 pushed, stopHist, traceHist>>

(* ---------------------------- helpers ---------------------------------- *)
\* cv.notify_one() / cv.notify_all(): the consumer is the only waiter; a
\* notification sent while it is not blocked in wait() is lost
Notified(w) == IF w = "waiting" THEN "relock" ELSE w

\* return of a public member function to the application
Return(t, to) ==
  /\ pc' = [pc EXCEPT ![t] = to]

(* ---------------------------- TraceSession::register_trace ------------- *)
\* lines 61-64: the event is built from the arguments; the thread then has
\* to take queue_mutex.  to = where the call returns.
EnterRegisterTrace(t, name, start, end, to) ==
  /\ ev' = [ev EXCEPT ![t] = MakeEvent(name, start, end)]
  /\ raw' = [raw EXCEPT ![t] = <<name, start, end>>]
  /\ ret' = [ret EXCEPT ![t] = to]
  /\ pc' = [pc EXCEPT ![t] = "rt_lock"]

\* the application calls session.register_trace(name, t0, t1)
CallRegisterTrace(t) ==
  /\ pc[t] = "idle"
  /\ ops > 0
  /\ \E a \in ArgEvents : EnterRegisterTrace(t, a[1], a[2], a[3], "idle")
  /\ ops' = ops - 1
  /\ UNCHANGED <<now, guard, span, sinkVars, traceVars, regVars, tret, cur, pushed,
                 stopHist, traceHist>>

\* line 67: std::lock_guard lock(queue_mutex)
RT_Lock(t) ==
  /\ pc[t] = "rt_lock"
  /\ queue_mutex = FREE
  /\ queue_mutex' = t
  /\ pc' = [pc EXCEPT ![t] = "rt_push"]
  /\ UNCHANGED <<now, guard, span, running, trace_queue, consumer_joinable,
                 session_start_time_, trace_file, file_state, wpc, traceVars,
                 regVars, ret, tret, ev, cur, ops, raw, pushed, stopHist,
                 traceHist>>

\* history: the time thread t left between the return of its startTrace
\* and its call of endTrace, when the event comes from that endTrace
Slept(t) ==
  IF ret[t] = "en_pop" /\ span[t].id = cur[t] /\ span[t].call >= 0
    THEN span[t].call - span[t].ret
    ELSE 0

\* mutant: with the consumer gone, the caller writes the line itself
RT_PushWritesThrough(t) ==
  /\ pc[t] = "rt_push"
  /\ trace_queue' = Append(trace_queue, ev[t])
  /\ queue_mutex' = FREE
  /\ trace_file' = IF wpc = "done" THEN Append(trace_file, Line(ev[t]))
                   ELSE trace_file
  /\ pushed' = Append(pushed, [ev |-> ev[t], arg |-> raw[t], tid |-> t,
                               st |-> "inflight",
                               live |-> wpc \notin {"close", "done"},
                               slept |-> Slept(t)])
  /\ pc' = [pc EXCEPT ![t] = "rt_notify"]
  /\ UNCHANGED <<now, guard, span, running, consumer_joinable, session_start_time_,
                 file_state, wpc, traceVars, regVars, ret, tret,
                 ev, cur, ops, raw, stopHist, traceHist>>

\* mutant: queue_mutex is not released after the push
RT_PushKeepsLock(t) ==
  /\ pc[t] = "rt_push"
  /\ trace_queue' = Append(trace_queue, ev[t])
  /\ pushed' = Append(pushed, [ev |-> ev[t], arg |-> raw[t], tid |-> t,
                               st |-> "inflight",
                               live |-> wpc \notin {"close", "done"},
                               slept |-> Slept(t)])
  /\ pc' = [pc EXCEPT ![t] = "rt_notify"]
  /\ UNCHANGED <<now, guard, span, running, queue_mutex, consumer_joinable,
                 session_start_time_, trace_file, file_state, wpc, traceVars,
                 regVars, ret, tret, ev, cur, ops, raw, stopHist, traceHist>>

\* lines 68-69: trace_queue.push(event); the lock_guard is released
RT_Push(t) ==
  /\ pc[t] = "rt_push"
  /\ trace_queue' = Append(trace_queue, ev[t])
  /\ queue_mutex' = FREE
  /\ pushed' = Append(pushed, [ev |-> ev[t], arg |-> raw[t], tid |-> t,
                               st |-> "inflight",
                               live |-> wpc \notin {"close", "done"},
                               slept |-> Slept(t)])
  /\ pc' = [pc EXCEPT ![t] = "rt_notify"]
  /\ UNCHANGED <<now, guard, span, running, consumer_joinable, session_start_time_,
                 trace_file, file_state, wpc, traceVars, regVars, ret, tret,
                 ev, cur, ops, raw, stopHist, traceHist>>

\* the history entry of the call thread t is completing
LastOf(t) ==
  CHOOSE i \in 1 .. Len(pushed) :
    /\ pushed[i].tid = t
    /\ \A j \in (i + 1) .. Len(pushed) : pushed[j].tid # t

CompletionStamp ==
  IF stopCalls = 0 THEN "preInvoke"
  ELSE IF ~stopReturned THEN "preReturn" ELSE "post"

\* mutant: register_trace returns without cv.notify_one()
RT_NotifyNobody(t) ==
  /\ pc[t] = "rt_notify"
  /\ pushed' = [pushed EXCEPT ![LastOf(t)].st = CompletionStamp]
  /\ Return(t, ret[t])
  /\ UNCHANGED <<now, guard, span, running, trace_queue, queue_mutex, consumer_joinable,
                 session_start_time_, trace_file, file_state, wpc, traceVars,
                 regVars, ret, tret, ev, cur, ops, raw, stopHist, traceHist>>

\* line 71: cv.notify_one(); register_trace returns
RT_Notify(t) ==
  /\ pc[t] = "rt_notify"
  /\ wpc' = Notified(wpc)
  /\ pushed' = [pushed EXCEPT ![LastOf(t)].st = CompletionStamp]
  /\ Return(t, ret[t])
  /\ UNCHANGED <<now, guard, span, running, trace_queue, queue_mutex, consumer_joinable,
                 session_start_time_, trace_file, file_state, traceVars,
                 regVars, ret, tret, ev, cur, ops, raw, stopHist, traceHist>>

(* ---------------------------- TraceSession::stop ----------------------- *)
\* mutant: stop() without the test of running
StopCheckAlways(t) ==
  /\ pc[t] = "idle"
  /\ ops > 0
  /\ ops' = ops - 1
  /\ stopCalls' = stopCalls + 1
  /\ queuedAtStop' = IF stopCalls = 0 THEN Len(trace_queue) ELSE queuedAtStop
  /\ pc' = [pc EXCEPT ![t] = "stop_set"]
  /\ stopIdx' = [stopIdx EXCEPT ![t] = stopCalls + 1]
  /\ UNCHANGED <<now, guard, span, sinkVars, traceVars, regVars, ret, tret, ev, cur, raw,
                 pushed, stopsDone, stopReturned, firstStopReturned, joins,
                 joinThrew, traceHist>>

\* line 46: the application calls stop() (or destroys the session, line 40);
\* the atomic flag is loaded, and stop() returns at once if it is false
StopCheck(t) ==
  /\ pc[t] = "idle"
  /\ ops > 0
  /\ ops' = ops - 1
  /\ stopCalls' = stopCalls + 1
  /\ queuedAtStop' = IF stopCalls = 0 THEN Len(trace_queue) ELSE queuedAtStop
  /\ IF running
       THEN /\ pc' = [pc EXCEPT ![t] = "stop_set"]
            /\ stopIdx' = [stopIdx EXCEPT ![t] = stopCalls + 1]
            /\ UNCHANGED stopsDone
       ELSE /\ stopsDone' = stopsDone + 1
            /\ UNCHANGED <<pc, stopIdx>>
  /\ UNCHANGED <<now, guard, span, sinkVars, traceVars, regVars, ret, tret, ev, cur, raw,
                 pushed, stopReturned, firstStopReturned, joins, joinThrew,
                 traceHist>>

\* line 47: running = false
StopSet(t) ==
  /\ pc[t] = "stop_set"
  /\ running' = FALSE
  /\ pc' = [pc EXCEPT ![t] = "stop_notify"]
  /\ UNCHANGED <<now, guard, span, trace_queue, queue_mutex, consumer_joinable,
                 session_start_time_, trace_file, file_state, wpc, traceVars,
                 regVars, ret, tret, ev, cur, ops, raw, pushed, stopHist,
                 traceHist>>

\* line 48: cv.notify_all()
StopNotify(t) ==
  /\ pc[t] = "stop_notify"
  /\ wpc' = Notified(wpc)
  /\ pc' = [pc EXCEPT ![t] = "stop_joinable"]
  /\ UNCHANGED <<now, guard, span, running, trace_queue, queue_mutex, consumer_joinable,
                 session_start_time_, trace_file, file_state, traceVars,
                 regVars, ret, tret, ev, cur, ops, raw, pushed, stopHist,
                 traceHist>>

\* stop() returns normally to the application from inside the if-block
StopReturn(t) ==
  /\ pc' = [pc EXCEPT ![t] = "idle"]
  /\ stopReturned' = TRUE
  /\ stopsDone' = stopsDone + 1
  /\ firstStopReturned' = (firstStopReturned \/ stopIdx[t] = 1)
  /\ stopIdx' = [stopIdx EXCEPT ![t] = 0]

\* line 49: if (consumer_thread.joinable())
StopJoinable(t) ==
  /\ pc[t] = "stop_joinable"
  /\ IF consumer_joinable
       THEN /\ pc' = [pc EXCEPT ![t] = "stop_join"]
            /\ UNCHANGED <<stopIdx, stopReturned, firstStopReturned,
                           stopsDone>>
       ELSE StopReturn(t)
  /\ UNCHANGED <<now, guard, span, sinkVars, traceVars, regVars, ret, tret, ev, cur, ops,
                 raw, pushed, stopCalls, queuedAtStop, joins, joinThrew,
                 traceHist>>

\* line 50: consumer_thread.join() blocks until trace_consumer has returned.
\* A join() on a thread another stop() has joined meanwhile raises
\* std::system_error, which leaves stop() by exception.
StopJoin(t) ==
  /\ pc[t] = "stop_join"
  /\ wpc = "done"
  /\ IF consumer_joinable
       THEN /\ consumer_joinable' = FALSE
            /\ joins' = joins + 1
            /\ StopReturn(t)
            /\ UNCHANGED joinThrew
       ELSE /\ joinThrew' = TRUE
            /\ pc' = [pc EXCEPT ![t] = "idle"]
            /\ stopIdx' = [stopIdx EXCEPT ![t] = 0]
            /\ UNCHANGED <<consumer_joinable, joins, stopReturned,
                           firstStopReturned, stopsDone>>
  /\ UNCHANGED <<now, guard, span, running, trace_queue, queue_mutex, session_start_time_,
                 trace_file, file_state, wpc, traceVars, regVars, ret, tret,
                 ev, cur, ops, raw, pushed, stopCalls, queuedAtStop,
                 traceHist>>

\* line 50: two stop() calls that both found running true are inside
\* consumer_thread.join() at once, which std::thread does not allow: one of
\* the two join() calls fails and leaves stop() with std::system_error,
\* whatever the consumer is doing
StopJoinRace(t) ==
  /\ pc[t] = "stop_join"
  /\ consumer_joinable
  /\ \E u \in Threads \ {t} : pc[u] = "stop_join"
  /\ joinThrew' = TRUE
  /\ pc' = [pc EXCEPT ![t] = "idle"]
  /\ stopIdx' = [stopIdx EXCEPT ![t] = 0]
  /\ UNCHANGED <<now, guard, span, sinkVars, traceVars, regVars, ret, tret, ev, cur, ops,
                 raw, pushed, stopCalls, stopsDone, stopReturned,
                 firstStopReturned, queuedAtStop, joins, traceHist>>

(* ---------------------------- TraceSession::trace_consumer ------------- *)
appUnchanged == <<now, guard, span, traceVars, regVars, threadVars, pushed,
                  stopHist, traceHist>>

\* line 77: std::ofstream trace_file(filename_)
W_Open ==
  /\ wpc = "start"
  /\ file_state' = "open"
  /\ trace_file' = <<>>
  /\ wpc' = "check"
  /\ UNCHANGED <<running, trace_queue, queue_mutex, consumer_joinable,
                 session_start_time_>>
  /\ UNCHANGED appUnchanged

\* mutant: while (running)
W_LoopCheckRunningOnly ==
  /\ wpc = "check"
  /\ wpc' = IF running THEN "lock" ELSE "close"
  /\ UNCHANGED <<running, trace_queue, queue_mutex, consumer_joinable,
                 session_start_time_, trace_file, file_state>>
  /\ UNCHANGED appUnchanged

\* mutant: while (!trace_queue.empty())
W_LoopCheckQueueOnly ==
  /\ wpc = "check"
  /\ wpc' = IF trace_queue # <<>> THEN "lock" ELSE "close"
  /\ UNCHANGED <<running, trace_queue, queue_mutex, consumer_joinable,
                 session_start_time_, trace_file, file_state>>
  /\ UNCHANGED appUnchanged

\* line 79: while (running || !trace_queue.empty()), evaluated without
\* queue_mutex; empty() is only evaluated when running is false
W_LoopCheck ==
  /\ wpc = "check"
  /\ wpc' = IF running \/ trace_queue # <<>> THEN "lock" ELSE "close"
  /\ UNCHANGED <<running, trace_queue, queue_mutex, consumer_joinable,
                 session_start_time_, trace_file, file_state>>
  /\ UNCHANGED appUnchanged

\* line 80: std::unique_lock lock(queue_mutex), and the re-acquisition of
\* the mutex when cv.wait() is woken
W_Lock ==
  /\ wpc \in {"lock", "relock"}
  /\ queue_mutex = FREE
  /\ queue_mutex' = CONSUMER
  /\ wpc' = "pred"
  /\ UNCHANGED <<running, trace_queue, consumer_joinable,
                 session_start_time_, trace_file, file_state>>
  /\ UNCHANGED appUnchanged

\* line 81: the wait predicate, evaluated holding queue_mutex
W_Pred ==
  /\ wpc = "pred"
  /\ wpc' = IF trace_queue # <<>> \/ ~running THEN "drain" ELSE "block"
  /\ UNCHANGED <<running, trace_queue, queue_mutex, consumer_joinable,
                 session_start_time_, trace_file, file_state>>
  /\ UNCHANGED appUnchanged

\* line 81: the predicate was false: cv.wait() releases queue_mutex and
\* blocks, atomically
W_Block ==
  /\ wpc = "block"
  /\ queue_mutex' = FREE
  /\ wpc' = "waiting"
  /\ UNCHANGED <<running, trace_queue, consumer_joinable,
                 session_start_time_, trace_file, file_state>>
  /\ UNCHANGED appUnchanged

\* a condition variable may wake without a notification
W_Spurious ==
  /\ wpc = "waiting"
  /\ wpc' = "relock"
  /\ UNCHANGED <<running, trace_queue, queue_mutex, consumer_joinable,
                 session_start_time_, trace_file, file_state>>
  /\ UNCHANGED appUnchanged

\* mutant: the event is popped and not written
W_DrainOneDropsLine ==
  /\ wpc = "drain"
  /\ trace_queue # <<>>
  /\ trace_queue' = Tail(trace_queue)
  /\ UNCHANGED <<running, queue_mutex, consumer_joinable,
                 session_start_time_, trace_file, file_state, wpc>>
  /\ UNCHANGED appUnchanged

\* mutant: the newest event of the queue is written first
W_DrainOneNewestFirst ==
  /\ wpc = "drain"
  /\ trace_queue # <<>>
  /\ trace_file' = Append(trace_file, Line(trace_queue[Len(trace_queue)]))
  /\ trace_queue' = SubSeq(trace_queue, 1, Len(trace_queue) - 1)
  /\ UNCHANGED <<running, queue_mutex, consumer_joinable,
                 session_start_time_, file_state, wpc>>
  /\ UNCHANGED appUnchanged

\* lines 83-90: one iteration of the drain loop
W_DrainOne ==
  /\ wpc = "drain"
  /\ trace_queue # <<>>
  /\ trace_file' = Append(trace_file, Line(Head(trace_queue)))
  /\ trace_queue' = Tail(trace_queue)
  /\ UNCHANGED <<running, queue_mutex, consumer_joinable,
                 session_start_time_, file_state, wpc>>
  /\ UNCHANGED appUnchanged

\* lines 83, 91: the queue is empty: the unique_lock is released and the
\* outer loop tests its condition again
W_DrainDone ==
  /\ wpc = "drain"
  /\ trace_queue = <<>>
  /\ queue_mutex' = FREE
  /\ wpc' = "check"
  /\ UNCHANGED <<running, trace_queue, consumer_joinable,
                 session_start_time_, trace_file, file_state>>
  /\ UNCHANGED appUnchanged

\* line 93: trace_file.close(); trace_consumer returns
W_Close ==
  /\ wpc = "close"
  /\ file_state' = "closed"
  /\ wpc' = "done"
  /\ UNCHANGED <<running, trace_queue, queue_mutex, consumer_joinable,
                 session_start_time_, trace_file>>
  /\ UNCHANGED appUnchanged

Consumer ==
  \/ W_Open \/ W_LoopCheck \/ W_Lock \/ W_Pred \/ W_Block \/ W_Spurious
  \/ W_DrainOne \/ W_DrainDone \/ W_Close

RegisterTraceSteps(t) == RT_Lock(t) \/ RT_Push(t) \/ RT_Notify(t)

StopSteps(t) ==
  StopCheck(t) \/ StopSet(t) \/ StopNotify(t) \/ StopJoinable(t)
    \/ StopJoin(t) \/ StopJoinRace(t)


(* ---------------------------- TraceGuard ------------------------------- *)
\* std::string::npos, the position find() and rfind() return when the
\* character is absent
npos == 0 - 1

\* result.find(c): position (from 0) of the first c
Find(str, c) ==
  IF \E i \in 1 .. Len(str) : str[i] = c
    THEN (CHOOSE i \in 1 .. Len(str) :
            str[i] = c /\ \A j \in 1 .. (i - 1) : str[j] # c) - 1
    ELSE npos

\* mutant: the first space
RFindFirst(str, c) == Find(str, c)

\* result.rfind(c): position (from 0) of the last c
RFind(str, c) ==
  IF \E i \in 1 .. Len(str) : str[i] = c
    THEN (CHOOSE i \in 1 .. Len(str) :
            str[i] = c /\ \A j \in (i + 1) .. Len(str) : str[j] # c) - 1
    ELSE npos

\* result.substr(pos, count), count characters at most, for pos <= size()
Substr(str, pos, count) ==
  SubSeq(str, pos + 1,
         IF pos + count <= Len(str) THEN pos + count ELSE Len(str))

\* lines 109-125
extract_trace_name(function_signature) ==
  LET r1 == IF Find(function_signature, "(") # npos
              THEN Substr(function_signature, 0,
                          Find(function_signature, "("))
              ELSE function_signature
  IN IF RFind(r1, " ") # npos
       THEN Substr(r1, RFind(r1, " ") + 1, Len(r1))
       ELSE r1

\* lines 96-100: TraceGuard(session, trace_name): the name is extracted and
\* the clock read
GuardCtor(t, sig) ==
  /\ pc[t] = "idle"
  /\ ops > 0
  /\ ~guard[t].alive
  /\ ops' = ops - 1
  /\ guard' = [guard EXCEPT ![t] =
                 [@ EXCEPT !.alive = TRUE,
                           !.trace_name_ = extract_trace_name(sig),
                           !.start_time_ = now,
                           !.signature = sig,
                           !.born = now,
                           !.built = @ + 1]]
  /\ UNCHANGED <<now, span, sinkVars, traceVars, regVars, pc, ret, tret, ev,
                 cur, raw, pushed, stopHist, traceHist>>

\* mutant: the destructor submits the instant of destruction twice
GuardDtorStartsAtEnd(t) ==
  /\ pc[t] = "idle"
  /\ guard[t].alive
  /\ EnterRegisterTrace(t, guard[t].trace_name_, now, now, "idle")
  /\ guard' = [guard EXCEPT ![t] =
                 [@ EXCEPT !.alive = FALSE,
                           !.ended = @ + 1,
                           !.lives = Append(@, <<guard[t].trace_name_,
                                                 guard[t].born, now>>)]]
  /\ UNCHANGED <<now, span, sinkVars, traceVars, regVars, tret, cur, ops,
                 pushed, stopHist, traceHist>>

\* lines 102-106: ~TraceGuard(): the clock is read and
\* session_.register_trace(trace_name_, start_time_, end_time) called
GuardDtor(t) ==
  /\ pc[t] = "idle"
  /\ guard[t].alive
  /\ EnterRegisterTrace(t, guard[t].trace_name_, guard[t].start_time_, now,
                        "idle")
  /\ guard' = [guard EXCEPT ![t] =
                 [@ EXCEPT !.alive = FALSE,
                           !.ended = @ + 1,
                           !.lives = Append(@, <<guard[t].trace_name_,
                                                 guard[t].born, now>>)]]
  /\ UNCHANGED <<now, span, sinkVars, traceVars, regVars, tret, cur, ops,
                 pushed, stopHist, traceHist>>


(* ---------------------------- NamedSharedTrace ------------------------- *)
\* the application calls start() on the NamedSharedTrace o; to = where the
\* call returns ("idle": the application; "reg_unlock": the TraceRegistry)
EnterStart(t, o, to) ==
  /\ cur' = [cur EXCEPT ![t] = o]
  /\ tret' = [tret EXCEPT ![t] = to]
  /\ pc' = [pc EXCEPT ![t] = "st_lock"]

EnterEnd(t, o, to) ==
  /\ cur' = [cur EXCEPT ![t] = o]
  /\ tret' = [tret EXCEPT ![t] = to]
  /\ pc' = [pc EXCEPT ![t] = "en_lock"]

CallStart(t, o) ==
  /\ pc[t] = "idle"
  /\ ops > 0
  /\ ops' = ops - 1
  /\ EnterStart(t, o, "idle")
  /\ UNCHANGED <<now, guard, span, sinkVars, traceVars, regVars, ret, ev, raw, pushed,
                 stopHist, traceHist>>

CallEnd(t, o) ==
  /\ pc[t] = "idle"
  /\ ops > 0
  /\ ops' = ops - 1
  /\ EnterEnd(t, o, "idle")
  /\ UNCHANGED <<now, guard, span, sinkVars, traceVars, regVars, ret, ev, raw, pushed,
                 stopHist, traceHist>>

\* mutant: the body is entered without waiting for trace_mutex_
TraceLockNoWait(t, at, to) ==
  /\ pc[t] = at
  /\ trace_mutex_' = [trace_mutex_ EXCEPT ![cur[t]] = t]
  /\ pc' = [pc EXCEPT ![t] = to]
  /\ UNCHANGED <<now, guard, span, sinkVars, trace, regVars, ret, tret, ev, cur, ops, raw,
                 pushed, stopHist, traceHist>>

\* lines 136 and 151: std::lock_guard lock(trace_mutex_)
TraceLock(t, at, to) ==
  /\ pc[t] = at
  /\ trace_mutex_[cur[t]] = FREE
  /\ trace_mutex_' = [trace_mutex_ EXCEPT ![cur[t]] = t]
  /\ pc' = [pc EXCEPT ![t] = to]
  /\ UNCHANGED <<now, guard, span, sinkVars, trace, regVars, ret, tret, ev, cur, ops, raw,
                 pushed, stopHist, traceHist>>

ST_Lock(t) == TraceLock(t, "st_lock", "st_body")

EN_Lock(t) == TraceLock(t, "en_lock", "en_check")

\* history: the call op of thread t on trace o was accepted (ok) or not
Logged(o, op, t, ok) ==
  calls' = [calls EXCEPT ![o] = Append(@, [op |-> op, tid |-> t, ok |-> ok])]

\* mutant: elements_ > start_times_.size()
IsFullOffByOne(tr) == tr.elements_ > Len(tr.start_times_)

\* mutant: start() never finds the buffer full
IsFullNever(tr) == FALSE

\* line 138: elements_ >= start_times_.size()
IsFull(tr) == tr.elements_ >= Len(tr.start_times_)

\* mutant: elements_ < 0, never true
IsEmptyNever(tr) == tr.elements_ < 0

\* line 153: elements_ == 0
IsEmpty(tr) == tr.elements_ = 0

\* mutant: counter_push_ is not advanced
StartedInPlace(tr, instant) ==
  [tr EXCEPT !.elements_ = @ + 1,
             !.start_times_[tr.counter_push_ + 1] = instant]

\* lines 142-145: the accepted start()
Started(tr, instant) ==
  [tr EXCEPT !.elements_ = @ + 1,
             !.start_times_[tr.counter_push_ + 1] = instant,
             !.counter_push_ = (@ + 1) % Len(tr.start_times_)]

\* mutant: a start() on a full buffer takes the place of the oldest
\* pending start
ST_BodyDropsOldest(t) ==
  LET o == cur[t] IN
  /\ pc[t] = "st_body"
  /\ IF IsFull(trace[o])
       THEN /\ Logged(o, "start", t, FALSE)
            /\ trace' = [trace EXCEPT
                           ![o].start_times_[trace[o].counter_push_ + 1] = now,
                           ![o].counter_push_ =
                              (@ + 1) % Len(trace[o].start_times_),
                           ![o].counter_pop_ =
                              (@ + 1) % Len(trace[o].start_times_)]
            /\ UNCHANGED starts
       ELSE /\ trace' = [trace EXCEPT ![o] = Started(@, now)]
            /\ starts' = [starts EXCEPT ![o] = Append(@, now)]
            /\ Logged(o, "start", t, TRUE)
  /\ trace_mutex_' = [trace_mutex_ EXCEPT ![o] = FREE]
  /\ pc' = [pc EXCEPT ![t] = tret[t]]
  /\ UNCHANGED <<now, guard, span, sinkVars, regVars, ret, tret, ev, cur, ops, raw, pushed,
                 stopHist, ends>>

\* lines 138-146: the body of start(), holding trace_mutex_; the lock_guard
\* is released on both returns
ST_Body(t) ==
  LET o == cur[t] IN
  /\ pc[t] = "st_body"
  /\ IF IsFull(trace[o])
       THEN /\ Logged(o, "start", t, FALSE)
            /\ UNCHANGED <<trace, starts>>
       ELSE /\ trace' = [trace EXCEPT ![o] = Started(@, now)]
            /\ starts' = [starts EXCEPT ![o] = Append(@, now)]
            /\ Logged(o, "start", t, TRUE)
  /\ trace_mutex_' = [trace_mutex_ EXCEPT ![o] = FREE]
  /\ pc' = [pc EXCEPT ![t] = tret[t]]
  /\ UNCHANGED <<now, guard, span, sinkVars, regVars, ret, tret, ev, cur, ops, raw, pushed,
                 stopHist, ends>>

\* mutant: the newest pending start instant
FrontNewest(tr) ==
  tr.start_times_[((tr.counter_push_ + Len(tr.start_times_) - 1)
                     % Len(tr.start_times_)) + 1]

\* mutant: the instant of the end() itself
FrontIsNow(tr) == now

\* line 159: the start instant the next accepted end() is matched with
Front(tr) == tr.start_times_[tr.counter_pop_ + 1]

\* mutant: trace_mutex_ is released before register_trace is called
EN_CheckUnlocksBeforeSubmit(t) ==
  LET o == cur[t] IN
  /\ pc[t] = "en_check"
  /\ trace_mutex_' = [trace_mutex_ EXCEPT ![o] = FREE]
  /\ IF IsEmpty(trace[o])
       THEN /\ Logged(o, "end", t, FALSE)
            /\ pc' = [pc EXCEPT ![t] = tret[t]]
            /\ UNCHANGED <<ev, raw, ret, ends>>
       ELSE /\ EnterRegisterTrace(t, o, Front(trace[o]), now, "en_pop")
            /\ ends' = [ends EXCEPT ![o] = Append(@, Front(trace[o]))]
            /\ Logged(o, "end", t, TRUE)
  /\ UNCHANGED <<now, guard, span, sinkVars, trace, regVars, tret, cur, ops, pushed,
                 stopHist, starts>>

\* lines 153-159: end() holding trace_mutex_: it returns if nothing is
\* pending, else reads the clock and calls session_.register_trace with the
\* instant at counter_pop_, still holding trace_mutex_
EN_Check(t) ==
  LET o == cur[t] IN
  /\ pc[t] = "en_check"
  /\ IF IsEmpty(trace[o])
       THEN /\ Logged(o, "end", t, FALSE)
            /\ trace_mutex_' = [trace_mutex_ EXCEPT ![o] = FREE]
            /\ pc' = [pc EXCEPT ![t] = tret[t]]
            /\ UNCHANGED <<ev, raw, ret, ends>>
       ELSE /\ EnterRegisterTrace(t, o, Front(trace[o]), now, "en_pop")
            /\ ends' = [ends EXCEPT ![o] = Append(@, Front(trace[o]))]
            /\ Logged(o, "end", t, TRUE)
            /\ UNCHANGED trace_mutex_
  /\ UNCHANGED <<now, guard, span, sinkVars, trace, regVars, tret, cur, ops, pushed,
                 stopHist, starts>>

\* mutant: elements_ is not decremented
EndedKeepsCount(tr) ==
  [tr EXCEPT !.counter_pop_ = (@ + 1) % Len(tr.start_times_)]

\* lines 160-161: the matched start
Ended(tr) ==
  [tr EXCEPT !.counter_pop_ = (@ + 1) % Len(tr.start_times_),
             !.elements_ = @ - 1]

\* lines 160-162: register_trace has returned; the cursor advances, the
\* count drops and the lock_guard is released
EN_Pop(t) ==
  LET o == cur[t] IN
  /\ pc[t] = "en_pop"
  /\ trace' = [trace EXCEPT ![o] = Ended(@)]
  /\ trace_mutex_' = [trace_mutex_ EXCEPT ![o] = FREE]
  /\ pc' = [pc EXCEPT ![t] = tret[t]]
  /\ UNCHANGED <<now, guard, span, sinkVars, regVars, ret, tret, ev, cur, ops, raw, pushed,
                 stopHist, traceHist>>

TraceSteps(t) == ST_Lock(t) \/ ST_Body(t) \/ EN_Lock(t) \/ EN_Check(t) \/ EN_Pop(t)

(* ---------------------------- TraceRegistry ---------------------------- *)
\* the application calls registerTrace(id, session), startTrace(id) or
\* endTrace(id)
CallRegistry(t, id, at) ==
  /\ pc[t] = "idle"
  /\ ops > 0
  /\ ops' = ops - 1
  /\ cur' = [cur EXCEPT ![t] = id]
  /\ pc' = [pc EXCEPT ![t] = at]
  /\ span' = [span EXCEPT ![t] =
                IF /\ at = "re_lock" /\ span[t].id = id
                   /\ span[t].ret >= 0 /\ span[t].call < 0
                  THEN [@ EXCEPT !.call = now]
                  ELSE NoSpan]
  /\ UNCHANGED <<now, guard, sinkVars, traceVars, regVars, ret, tret, ev,
                 raw, pushed, stopHist, traceHist>>

CallRegisterTraceId(t, id) == CallRegistry(t, id, "rr_lock")

CallStartTrace(t, id) == CallRegistry(t, id, "rs_lock")

CallEndTrace(t, id) == CallRegistry(t, id, "re_lock")

\* lines 167, 174, 183: std::lock_guard lock(mutex_)
RegistryLock(t, at, to) ==
  /\ pc[t] = at
  /\ mutex_ = FREE
  /\ mutex_' = t
  /\ pc' = [pc EXCEPT ![t] = to]
  /\ UNCHANGED <<now, guard, span, sinkVars, traceVars, traces_, ret, tret, ev, cur, ops,
                 raw, pushed, stopHist, traceHist>>

RR_Lock(t) == RegistryLock(t, "rr_lock", "rr_body")

RS_Lock(t) == RegistryLock(t, "rs_lock", "rs_lookup")

RE_Lock(t) == RegistryLock(t, "re_lock", "re_lookup")

\* mutant: an identifier that has an entry keeps its NamedSharedTrace
RR_BodyKeepsExisting(t) ==
  LET id == cur[t] IN
  /\ pc[t] = "rr_body"
  /\ traces_' = traces_ \cup {id}
  /\ trace' = IF id \in traces_ THEN trace
              ELSE [trace EXCEPT ![id] = FreshTrace]
  /\ trace_mutex_' = [trace_mutex_ EXCEPT ![id] = FREE]
  /\ starts' = [starts EXCEPT ![id] = <<>>]
  /\ ends' = [ends EXCEPT ![id] = <<>>]
  /\ calls' = [calls EXCEPT ![id] = <<>>]
  /\ mutex_' = FREE
  /\ pc' = [pc EXCEPT ![t] = "idle"]
  /\ UNCHANGED <<now, guard, span, sinkVars, ret, tret, ev, cur, ops, raw, pushed,
                 stopHist>>

\* line 168: traces_[id] = std::make_unique<NamedSharedTrace>(session, id):
\* a new object replaces (and destroys) the one registered before
RR_Body(t) ==
  LET id == cur[t] IN
  /\ pc[t] = "rr_body"
  /\ traces_' = traces_ \cup {id}
  /\ trace' = [trace EXCEPT ![id] = FreshTrace]
  /\ trace_mutex_' = [trace_mutex_ EXCEPT ![id] = FREE]
  /\ starts' = [starts EXCEPT ![id] = <<>>]
  /\ ends' = [ends EXCEPT ![id] = <<>>]
  /\ calls' = [calls EXCEPT ![id] = <<>>]
  /\ mutex_' = FREE
  /\ pc' = [pc EXCEPT ![t] = "idle"]
  /\ UNCHANGED <<now, guard, span, sinkVars, ret, tret, ev, cur, ops, raw, pushed,
                 stopHist>>

\* mutant: the call is forwarded whatever traces_ holds
RegisteredAlways(id) == id \in Ids

\* lines 175 and 184: traces_.count(id)
Registered(id) == id \in traces_

\* mutant: mutex_ is released before the call is forwarded
RegistryLookupUnlocksFirst(t, at, op) ==
  /\ pc[t] = at
  /\ mutex_' = FREE
  /\ IF Registered(cur[t])
       THEN /\ IF op = "startTrace"
                 THEN EnterStart(t, cur[t], "reg_unlock")
                 ELSE EnterEnd(t, cur[t], "reg_unlock")
            /\ UNCHANGED calls
       ELSE /\ pc' = [pc EXCEPT ![t] = "idle"]
            /\ Logged(cur[t], op, t, FALSE)
            /\ UNCHANGED <<cur, tret>>
  /\ UNCHANGED <<now, guard, span, sinkVars, traceVars, traces_, ret, ev, ops, raw, pushed,
                 stopHist, starts, ends>>

\* lines 175-177 and 184-186: if (traces_.count(id)) the call is forwarded
\* with mutex_ held; otherwise the lock_guard is released and the call
\* returns
RegistryLookup(t, at, op) ==
  /\ pc[t] = at
  /\ IF Registered(cur[t])
       THEN /\ IF op = "startTrace"
                 THEN EnterStart(t, cur[t], "reg_unlock")
                 ELSE EnterEnd(t, cur[t], "reg_unlock")
            /\ UNCHANGED <<mutex_, calls>>
       ELSE /\ mutex_' = FREE
            /\ pc' = [pc EXCEPT ![t] = "idle"]
            /\ Logged(cur[t], op, t, FALSE)
            /\ UNCHANGED <<cur, tret>>
  /\ UNCHANGED <<now, guard, span, sinkVars, traceVars, traces_, ret, ev, ops, raw, pushed,
                 stopHist, starts, ends>>

RS_Lookup(t) == RegistryLookup(t, "rs_lookup", "startTrace")

RE_Lookup(t) == RegistryLookup(t, "re_lookup", "endTrace")

\* lines 178 and 187: the forwarded call has returned; the lock_guard on
\* mutex_ is released
RegUnlock(t) ==
  /\ pc[t] = "reg_unlock"
  /\ mutex_' = FREE
  /\ pc' = [pc EXCEPT ![t] = "idle"]
  /\ span' = [span EXCEPT ![t] =
                IF /\ calls[cur[t]][Len(calls[cur[t]])].op = "start"
                   /\ calls[cur[t]][Len(calls[cur[t]])].ok
                  THEN [id |-> cur[t], ret |-> now, call |-> 0 - 1]
                  ELSE NoSpan]
  /\ UNCHANGED <<now, guard, sinkVars, traceVars, traces_, ret, tret, ev, cur, ops,
                 raw, pushed, stopHist, traceHist>>

RegistrySteps(t) ==
  \/ RR_Lock(t) \/ RR_Body(t) \/ RS_Lock(t) \/ RS_Lookup(t)
  \/ RE_Lock(t) \/ RE_Lookup(t) \/ RegUnlock(t)

(* ---------------------------- the sink on its own ---------------------- *)
Next ==
  \/ Consumer
  \/ \E t \in Threads :
       CallRegisterTrace(t) \/ RegisterTraceSteps(t) \/ StopSteps(t)

Spec == Init /\ [][Next]_vars

(* ---------------------------- one NamedSharedTrace --------------------- *)
\* threads calling start() and end() on the NamedSharedTrace "s"
InitTrace == InitWith(MaxTraceOps)

NextTrace ==
  \/ Tick
  \/ \E t \in Threads :
       \/ CallStart(t, "s") \/ CallEnd(t, "s")
       \/ TraceSteps(t) \/ RegisterTraceSteps(t)

SpecTrace == InitTrace /\ [][NextTrace]_vars

(* ---------------------------- the TraceRegistry ------------------------ *)
InitRegistry == InitWith(MaxRegistryOps)

NextRegistry ==
  \/ Tick
  \/ \E t \in Threads :
       \/ \E id \in Ids :
            CallRegisterTraceId(t, id) \/ CallStartTrace(t, id)
              \/ CallEndTrace(t, id)
       \/ RegistrySteps(t) \/ TraceSteps(t) \/ RegisterTraceSteps(t)

SpecRegistry == InitRegistry /\ [][NextRegistry]_vars

(* ---------------------------- TraceGuard objects ----------------------- *)
\* threads constructing and destroying TraceGuard objects on the session
InitGuard == InitWith(MaxGuardOps)

NextGuard ==
  \/ Tick
  \/ \E t \in Threads :
       \/ \E sig \in GuardSignatures : GuardCtor(t, sig)
       \/ GuardDtor(t)
       \/ RegisterTraceSteps(t)

SpecGuard == InitGuard /\ [][NextGuard]_vars

\* one TraceGuard constructed with any string, and destroyed
InitExtract == InitWith(1)

NextExtract ==
  \/ \E sig \in Signatures : GuardCtor(1, sig)
  \/ GuardDtor(1)
  \/ RegisterTraceSteps(1)

SpecExtract == InitExtract /\ [][NextExtract]_vars

(* ---------------------------- registry, session and trace file --------- *)
\* one thread registers identifiers, calls startTrace and then endTrace
\* on registered ones and in the end stops the session, while the consumer
\* thread runs
InitEndToEnd == InitWith(MaxEndToEndOps)

NextEndToEnd ==
  \/ Tick
  \/ Consumer
  \/ /\ stopCalls = 0
     /\ \E id \in Ids :
          \/ id \notin traces_ /\ CallRegisterTraceId(1, id)
          \/ /\ id \in traces_ /\ trace[id].elements_ = 0
             /\ CallStartTrace(1, id)
          \/ /\ id \in traces_ /\ trace[id].elements_ > 0
             /\ CallEndTrace(1, id)
  \/ RegistrySteps(1) \/ TraceSteps(1) \/ RegisterTraceSteps(1)
  \/ StopCheck(1) \/ StopSet(1) \/ StopNotify(1) \/ StopJoinable(1)
  \/ StopJoin(1)

SpecEndToEnd == InitEndToEnd /\ [][NextEndToEnd]_vars

(* ---------------------------- every mutex in play -------------------- *)
\* threads calling the TraceRegistry on the identifier "x" (and through
\* it start() and end() of its NamedSharedTrace) and register_trace of the
\* TraceSession while the consumer thread runs; stop() is not called
InitLocks == InitWith(MaxLockOps)

NextLocks ==
  \/ W_Open \/ W_LoopCheck \/ W_Lock \/ W_Pred \/ W_Block \/ W_Spurious
  \/ W_DrainOne \/ W_DrainDone
  \/ \E t \in Threads :
       \/ CallRegisterTraceId(t, "x") \/ CallStartTrace(t, "x")
       \/ CallEndTrace(t, "x")
       \/ CallRegisterTrace(t)
       \/ RegistrySteps(t) \/ TraceSteps(t) \/ RegisterTraceSteps(t)

SpecLocks == InitLocks /\ [][NextLocks]_vars

(* ---------------------------- fair scheduling -------------------------- *)
\* every step of the consumer thread but the spurious wake-up, which no
\* scheduler promises
ConsumerScheduled ==
  \/ W_Open \/ W_LoopCheck \/ W_Lock \/ W_Pred \/ W_Block
  \/ W_DrainOne \/ W_DrainDone \/ W_Close

\* the steps of a call in progress on thread t (a thread is never obliged
\* to make a new call)
InProgress(t) ==
  \/ RegisterTraceSteps(t)
  \/ StopSet(t) \/ StopNotify(t) \/ StopJoinable(t) \/ StopJoin(t)

\* a thread that can run is eventually run
FairSpec ==
  /\ Init /\ [][Next]_vars
  /\ WF_vars(ConsumerScheduled)
  /\ \A t \in Threads : WF_vars(InProgress(t))

\* the same threads under the same scheduling, with the calls of a shorter
\* run
InitFair == InitWith(MaxFairOps)

SpecFair ==
  /\ InitFair /\ [][Next]_vars
  /\ WF_vars(ConsumerScheduled)
  /\ \A t \in Threads : WF_vars(InProgress(t))


(* ---------------------------- reading the trace file back -------------- *)
DigitValue(c) ==
  CHOOSE d \in 0 .. 9 : DigitChar(d) = c

RECURSIVE StrToNat(_)
StrToNat(str) ==
  IF Len(str) = 1 THEN DigitValue(str[1])
  ELSE 10 * StrToNat(SubSeq(str, 1, Len(str) - 1)) + DigitValue(str[Len(str)])

StrToInt(str) ==
  IF str[1] = "-" THEN 0 - StrToNat(Tail(str)) ELSE StrToNat(str)

\* positions of the separators " " in a line
Spaces(line) == {i \in 1 .. Len(line) : line[i] = " "}

\* a line has exactly two separators and ends with a line feed
WellFormed(line) ==
  /\ Cardinality(Spaces(line)) = 2
  /\ line[Len(line)] = "\n"
  /\ \A i \in 1 .. (Len(line) - 1) : line[i] # "\n"

\* the three fields <<name, start offset, end offset>> of a well-formed line
Fields(line) ==
  LET s1 == CHOOSE i \in Spaces(line) : \A j \in Spaces(line) : i <= j
      s2 == CHOOSE i \in Spaces(line) : \A j \in Spaces(line) : j <= i
  IN <<line[1], StrToInt(SubSeq(line, s1 + 1, s2 - 1)),
       StrToInt(SubSeq(line, s2 + 1, Len(line) - 1))>>

\* the trace file holds, in order, the lines of the first Len(trace_file)
\* pushes: one line per push, no other line
FileIsPrefixOfPushed ==
  /\ Len(trace_file) <= Len(pushed)
  /\ \A i \in 1 .. Len(trace_file) : trace_file[i] = Line(pushed[i].ev)

(* ---------------------------- C1 --------------------------------------- *)
\* C1 as stated: once a stop() that shut the session down has returned, every
\* register_trace call that completed before that return has its line in
\* the trace file.
C1_EverySubmitBeforeStopReturnsHasALine ==
  stopReturned =>
    \A i \in 1 .. Len(pushed) :
      pushed[i].st \in {"preInvoke", "preReturn"} => i <= Len(trace_file)

\* C1 (amended): once a stop() that shut the session down has returned,
\* every line of the trace file is the well-formed line of exactly one
\* register_trace call (none duplicated, none invented), every call that
\* completed before stop() was invoked has its line, and the calls without
\* a line are exactly those that pushed their event after the consumer left
\* its loop, whether or not they completed before stop() returned.
C1_SubmitsBeforeConsumerExitHaveOneLine ==
  stopReturned =>
    /\ FileIsPrefixOfPushed
    /\ \A i \in 1 .. Len(trace_file) : WellFormed(trace_file[i])
    /\ \A i \in 1 .. Len(pushed) :
         /\ pushed[i].st = "preInvoke" => i <= Len(trace_file)
         /\ pushed[i].live <=> i <= Len(trace_file)

\* two producers have their lines in the file and a third call, completed
\* before stop() returned, has none
C1_Witness ==
  /\ stopReturned
  /\ \E i, j \in 1 .. Len(trace_file) : pushed[i].tid # pushed[j].tid
  /\ \E i \in 1 .. Len(pushed) :
       pushed[i].st = "preReturn" /\ i > Len(trace_file)

(* ---------------------------- C2 --------------------------------------- *)
\* C2: when the first stop() call has returned, every event whose
\* register_trace call completed before stop() was invoked is in the trace
\* file, exactly once (the file is the sequence of the first pushes).
C2_QueuedEventsDrainedAtStop ==
  firstStopReturned =>
    /\ FileIsPrefixOfPushed
    /\ \A i \in 1 .. Len(pushed) :
         pushed[i].st = "preInvoke" => i <= Len(trace_file)

\* the first stop() was invoked with events still queued, and has returned
C2_Witness ==
  /\ firstStopReturned
  /\ queuedAtStop >= 2
  /\ \E i \in 1 .. Len(pushed) : pushed[i].st = "preInvoke"

(* ---------------------------- C3 --------------------------------------- *)
\* C3: under fair scheduling every stop() call in progress eventually leaves
\* stop() again.
C3_StopEventuallyReturns ==
  \A t \in Threads :
    (pc[t] \in {"stop_set", "stop_notify", "stop_joinable", "stop_join"})
      ~> (pc[t] = "idle")

(* ---------------------------- C4 --------------------------------------- *)
\* C4: a stop() call made after an earlier stop() call has returned
\* completes in the same step (it does not block) and changes nothing:
\* running, the queue, the file, the consumer and its joinable state.
C4_StopIdempotent ==
  [][(stopsDone >= 1 /\ stopCalls' # stopCalls) =>
       /\ stopsDone' = stopsDone + 1
       /\ pc' = pc
       /\ UNCHANGED <<sinkVars, joins, joinThrew>>
       /\ running' = FALSE]_vars

\* a second stop() has been made after the first one returned
C4_Witness ==
  /\ stopReturned
  /\ stopsDone >= 2
  /\ joins = 1


(* ---------------------------- histories of a NamedSharedTrace ---------- *)
\* the pushes made for the trace named o, in the order of the queue
PushedOf(o) == SelectSeq(pushed, LAMBDA e : e.arg[1] = o)

\* thread t holds trace_mutex_ of o: it is inside the body of start() or
\* end(), the call to register_trace included
Holding(t, o) ==
  /\ cur[t] = o
  /\ \/ pc[t] \in {"st_body", "en_check", "en_pop"}
     \/ pc[t] \in {"rt_lock", "rt_push", "rt_notify"} /\ ret[t] = "en_pop"

\* accepted end() calls whose event is not in the queue yet
Submitting(o) ==
  Cardinality({t \in Threads :
                 /\ cur[t] = o /\ ret[t] = "en_pop"
                 /\ pc[t] \in {"rt_lock", "rt_push"}})

AcceptedEnds(o) ==
  Cardinality({i \in 1 .. Len(calls[o]) :
                 calls[o][i].op = "end" /\ calls[o][i].ok})

\* the number of start() calls made before the first end() call
LeadingStarts(c) ==
  CHOOSE n \in 0 .. Len(c) :
    /\ \A i \in 1 .. n : c[i].op = "start"
    /\ n < Len(c) => c[n + 1].op # "start"

(* ---------------------------- C5 --------------------------------------- *)
\* C5: the k-th accepted end() reads, and submits to the session, the start
\* instant recorded by the k-th accepted start().
C5_FifoMatching ==
  LET p == PushedOf("s") IN
  /\ Len(ends["s"]) <= Len(starts["s"])
  /\ \A k \in 1 .. Len(ends["s"]) : ends["s"][k] = starts["s"][k]
  /\ Len(p) <= Len(ends["s"])
  /\ \A k \in 1 .. Len(p) :
       /\ p[k].arg[2] = starts["s"][k]
       /\ p[k].ev.start_time = starts["s"][k] - session_start_time_

\* more ends than the buffer has slots were matched, by two threads, with
\* start instants that differ
C5_Witness ==
  LET p == PushedOf("s") IN
  /\ Len(p) > TRACE_SIZE_INIT
  /\ p[1].arg[2] # p[Len(p)].arg[2]
  /\ \E i, j \in 1 .. Len(p) : p[i].tid # p[j].tid
  /\ \E i \in 1 .. Len(calls["s"]) :
       i > 1 /\ calls["s"][i].op = "start" /\ calls["s"][i - 1].op = "start"

(* ---------------------------- C6 --------------------------------------- *)
\* C6: of the n start() calls made before the first end() call the first
\* TRACE_SIZE_INIT are accepted and the others rejected, leaving exactly
\* TRACE_SIZE_INIT pending starts when n exceeds the capacity; of the end()
\* calls that follow them the first TRACE_SIZE_INIT are accepted and the
\* next one is rejected; every accepted end() submits exactly one event.
C6_CapacityStartsThenEnds ==
  LET c == calls["s"]
      n == LeadingStarts(c)
  IN
  /\ \A i \in 1 .. n : c[i].ok <=> (i <= TRACE_SIZE_INIT)
  /\ (n >= TRACE_SIZE_INIT /\ Len(c) = n) =>
       /\ trace["s"].elements_ = TRACE_SIZE_INIT
       /\ Len(starts["s"]) = TRACE_SIZE_INIT
  /\ n > TRACE_SIZE_INIT =>
       \A j \in 1 .. (TRACE_SIZE_INIT + 1) :
         (/\ n + j <= Len(c)
          /\ \A i \in (n + 1) .. (n + j) : c[i].op = "end")
           => (c[n + j].ok <=> (j <= TRACE_SIZE_INIT))
  /\ AcceptedEnds("s") = Len(PushedOf("s")) + Submitting("s")

\* more starts than the capacity, then capacity + 1 ends, all completed
C6_Witness ==
  LET c == calls["s"]
      n == LeadingStarts(c)
  IN
  /\ n > TRACE_SIZE_INIT
  /\ Len(c) >= n + TRACE_SIZE_INIT + 1
  /\ \A i \in (n + 1) .. (n + TRACE_SIZE_INIT + 1) : c[i].op = "end"
  /\ Len(PushedOf("s")) = TRACE_SIZE_INIT
  /\ \A t \in Threads : pc[t] = "idle"

(* ---------------------------- C7 --------------------------------------- *)
\* C7: an end() that finds every accepted start() already matched returns
\* without submitting an event and leaves elements_ (0), both cursors and
\* the stored instants as they are.
C7_EndWithoutStartIsNoOp ==
  [][\A t \in Threads :
       (/\ pc[t] = "en_check"
        /\ pc'[t] # "en_check"
        /\ Len(starts[cur[t]]) = Len(ends[cur[t]]))
         => /\ trace[cur[t]].elements_ = 0
            /\ trace' = trace
            /\ pushed' = pushed
            /\ trace_queue' = trace_queue
            /\ ev' = ev
            /\ pc'[t] = tret[t]]_vars

\* an end() was rejected in the initial state, and another one after a
\* start() had been matched
C7_Witness ==
  LET c == calls["s"] IN
  /\ Len(c) >= 4
  /\ c[1].op = "end" /\ ~c[1].ok
  /\ \E j \in 3 .. Len(c) :
       /\ c[j].op = "end" /\ ~c[j].ok
       /\ c[j - 1].op = "end" /\ c[j - 1].ok
  /\ trace["s"].counter_pop_ = trace["s"].counter_push_
  /\ trace["s"].elements_ = 0

(* ---------------------------- C8 --------------------------------------- *)
\* C8: startTrace(id) and endTrace(id) on an identifier that is not in
\* traces_ return without creating an entry, without touching any
\* NamedSharedTrace and without submitting an event; an identifier never
\* registered has no trace state and no event.
C8_UnknownIdIsNoOp ==
  /\ [](\A id \in Ids \ traces_ :
          /\ trace[id] = FreshTrace
          /\ PushedOf(id) = <<>>
          /\ starts[id] = <<>>)
  /\ [][\A t \in Threads :
          (/\ pc[t] \in {"rs_lookup", "re_lookup"}
           /\ pc'[t] # pc[t]
           /\ cur[t] \notin traces_)
            => /\ traces_' = traces_
               /\ trace' = trace
               /\ pushed' = pushed
               /\ trace_queue' = trace_queue
               /\ ev' = ev
               /\ pc'[t] = "idle"]_vars

\* startTrace and then endTrace were called on an identifier that is still
\* not registered, while another identifier is registered and traced
C8_Witness ==
  \E id \in Ids \ traces_ :
    /\ \E i, j \in 1 .. Len(calls[id]) :
         /\ i < j
         /\ calls[id][i].op = "startTrace"
         /\ calls[id][j].op = "endTrace"
    /\ traces_ # {}
    /\ pushed # <<>>

(* ---------------------------- C9 --------------------------------------- *)
ThreadCalls(t) == SelectSeq(calls["s"], LAMBDA c : c.tid = t)

\* thread t has called start(), end(), start(), end(), ... so far
Alternates(t) ==
  \A i \in 1 .. Len(ThreadCalls(t)) :
    ThreadCalls(t)[i].op = IF i % 2 = 1 THEN "start" ELSE "end"

\* C9: no two threads are inside the body of start() or end() of the same
\* trace at once; and when every thread makes start()-then-end() pairs and
\* there are no more threads than slots, no call is rejected and every
\* end() submits exactly one event.
C9_PairsFromManyThreads ==
  /\ \A t1, t2 \in Threads :
       (t1 # t2) => ~(Holding(t1, "s") /\ Holding(t2, "s"))
  /\ ((\A t \in Threads : Alternates(t)) /\ Cardinality(Threads) <= TRACE_SIZE_INIT) =>
       /\ \A i \in 1 .. Len(calls["s"]) : calls["s"][i].ok
       /\ Len(PushedOf("s")) + Submitting("s") =
            Cardinality({i \in 1 .. Len(calls["s"]) :
                           calls["s"][i].op = "end"})

\* every thread has completed its pairs, three in all, two starts having
\* been pending at the same time
C9_Witness ==
  /\ \A t \in Threads :
       /\ Alternates(t)
       /\ Len(ThreadCalls(t)) >= 2
       /\ Len(ThreadCalls(t)) % 2 = 0
       /\ pc[t] = "idle"
  /\ calls["s"][1].op = "start" /\ calls["s"][2].op = "start"
  /\ Len(PushedOf("s")) >= 3

(* ---------------------------- C10 -------------------------------------- *)
\* C10: the reference instant never changes, and the fields read back from
\* the i-th line of the trace file are the name and the two offsets
\* t0 - r, t1 - r of the arguments of the i-th push, negative or not.
C10_OffsetsRelativeToReference ==
  /\ session_start_time_ = InitialClock
  /\ \A i \in 1 .. Len(trace_file) :
       /\ i <= Len(pushed)
       /\ WellFormed(trace_file[i])
       /\ Fields(trace_file[i]) =
            <<pushed[i].arg[1],
              pushed[i].arg[2] - InitialClock,
              pushed[i].arg[3] - InitialClock>>

\* a line with a negative start offset and one with a negative end offset
C10_Witness ==
  /\ \E i \in 1 .. Len(trace_file) :
       Fields(trace_file[i])[2] < 0 /\ Fields(trace_file[i])[3] > 9
  /\ \E i \in 1 .. Len(trace_file) :
       Fields(trace_file[i])[3] < 0 /\ Fields(trace_file[i])[2] > 9

(* ---------------------------- C11 -------------------------------------- *)
\* the register_trace calls of thread t that have pushed their event, in
\* the order t made them (a thread is inside one call at a time)
PushesOf(t) == SelectSeq(pushed, LAMBDA e : e.tid = t)

\* the lines of the calls of thread t, in the order of the calls
LinesOf(t) ==
  [k \in 1 .. Len(PushesOf(t)) |->
     Line(MakeEvent(PushesOf(t)[k].arg[1], PushesOf(t)[k].arg[2],
                    PushesOf(t)[k].arg[3]))]

\* f is made of a prefix of each of the sequences seqs[t], interleaved
RECURSIVE IsInterleaving(_, _)
IsInterleaving(f, seqs) ==
  IF f = <<>> THEN TRUE
  ELSE \E t \in DOMAIN seqs :
         /\ seqs[t] # <<>>
         /\ Head(f) = Head(seqs[t])
         /\ IsInterleaving(Tail(f), [seqs EXCEPT ![t] = Tail(@)])

\* the lines of the file that come from the pushes of thread t, in the
\* order of the file
FileLinesOf(t) ==
  LET n == IF Len(trace_file) <= Len(pushed) THEN Len(trace_file)
           ELSE Len(pushed)
      idx == {i \in 1 .. n : pushed[i].tid = t}
  IN [k \in 1 .. Cardinality(idx) |->
        trace_file[CHOOSE i \in idx :
                     Cardinality({j \in idx : j <= i}) = k]]

\* C11: the trace file is an interleaving of the lines of the producers,
\* each producer's lines in the order of its register_trace calls: the
\* lines written for thread t are the lines of its first calls, in order.
C11_ProducerOrderKept ==
  /\ IsInterleaving(trace_file, [t \in Threads |-> LinesOf(t)])
  /\ Len(trace_file) <= Len(pushed)
  /\ \A t \in Threads :
       /\ Len(FileLinesOf(t)) <= Len(LinesOf(t))
       /\ \A k \in 1 .. Len(FileLinesOf(t)) :
            FileLinesOf(t)[k] = LinesOf(t)[k]

\* two different lines of one producer are in the file, in the order of
\* its calls, with a line of the other producer between them
C11_Witness ==
  \E i, j, k \in 1 .. Len(trace_file) :
    /\ i < j /\ j < k
    /\ pushed[i].tid = pushed[k].tid
    /\ pushed[j].tid # pushed[i].tid
    /\ pushed[i].ev # pushed[k].ev
    /\ trace_file[i] # trace_file[k]
    /\ trace_file[i] = Line(pushed[i].ev)

(* ---------------------------- C20 -------------------------------------- *)
\* C20: whenever a stop() call returns, the consumer has left
\* trace_consumer and the trace file is closed; and join() is called on the
\* consumer thread at most once (no second join() is attempted).
C20_EveryStopReturnFindsWriterDone ==
  /\ [][(stopsDone' # stopsDone) =>
          (wpc = "done" /\ file_state = "closed")]_vars
  /\ [](joins <= 1 /\ ~joinThrew)

(* ---------------------------- C14 -------------------------------------- *)
\* C14: once the consumer has left trace_consumer the trace file never
\* changes again; an event pushed after the consumer left its loop has no
\* line in the file; and a register_trace call made then is not held up:
\* queue_mutex is free or held by a producer about to release it, and the
\* call goes through its push and its notification back to its caller.
C14_LateSubmitIsLostSilently ==
  /\ [][wpc = "done" =>
          /\ trace_file' = trace_file
          /\ file_state' = file_state
          /\ wpc' = wpc
          /\ \A t \in Threads :
               /\ (pc[t] = "rt_push" /\ pc'[t] # pc[t]) =>
                    /\ pc'[t] = "rt_notify"
                    /\ Len(pushed') = Len(pushed) + 1
                    /\ ~pushed'[Len(pushed')].live
               /\ (pc[t] = "rt_notify" /\ pc'[t] # pc[t]) =>
                    pc'[t] = ret[t]]_vars
  /\ [](\A i \in 1 .. Len(pushed) :
          ~pushed[i].live => i > Len(trace_file))
  /\ [](wpc = "done" =>
          \/ queue_mutex = FREE
          \/ queue_mutex \in Threads /\ pc[queue_mutex] = "rt_push")

\* after stop() has returned a thread has made two register_trace calls,
\* both returned; the file holds the line of an earlier call only
C14_Witness ==
  /\ wpc = "done"
  /\ Len(trace_file) = 1
  /\ \E i, j \in 1 .. Len(pushed) :
       /\ i < j
       /\ Len(trace_file) < i
       /\ pushed[i].tid = pushed[j].tid
       /\ pushed[i].st = "post" /\ pushed[j].st = "post"
       /\ ~pushed[j].live
  /\ \A t \in Threads : pc[t] = "idle"

(* ---------------------------- C17 -------------------------------------- *)
\* the calls on "s" so far are start(), end(), start(), end(), ..., each
\* made after the one before it
SequentialPairs ==
  \A i \in 1 .. Len(calls["s"]) :
    calls["s"][i].op = IF i % 2 = 1 THEN "start" ELSE "end"

\* C17: when start() and end() are called in turn, whatever their number,
\* every call is accepted, every end() submits exactly one event, at most
\* one start is pending and the push cursor is the number of starts modulo
\* the capacity.
C17_SequentialPairsAllAccepted ==
  LET c == calls["s"] IN
  SequentialPairs =>
    /\ \A i \in 1 .. Len(c) : c[i].ok
    /\ Len(PushedOf("s")) + Submitting("s") = Len(c) \div 2
    /\ trace["s"].elements_ <= 1
    /\ trace["s"].counter_push_ = ((Len(c) + 1) \div 2) % TRACE_SIZE_INIT
    /\ Len(starts["s"]) = (Len(c) + 1) \div 2

\* more pairs than the buffer has slots have completed: the cursors have
\* wrapped
C17_Witness ==
  /\ SequentialPairs
  /\ Len(calls["s"]) = 2 * (TRACE_SIZE_INIT + 1)
  /\ Len(PushedOf("s")) = TRACE_SIZE_INIT + 1
  /\ trace["s"].counter_push_ = 1
  /\ trace["s"].counter_pop_ = 1
  /\ \A t \in Threads : pc[t] = "idle"

(* ---------------------------- C18 -------------------------------------- *)
\* C18: elements_ of every NamedSharedTrace is between 0 and the capacity,
\* and the capacity is the length start_times_ was constructed with.
C18_ElementsWithinCapacity ==
  \A o \in TraceNames :
    /\ trace[o].elements_ >= 0
    /\ trace[o].elements_ <= TRACE_SIZE_INIT
    /\ Len(trace[o].start_times_) = TRACE_SIZE_INIT

\* a start() was rejected on the full buffer and, later, an end() on the
\* empty one, the calls coming from two threads
C18_Witness ==
  LET c == calls["s"] IN
  /\ \E i, j \in 1 .. Len(c) :
       /\ i < j
       /\ c[i].op = "start" /\ ~c[i].ok
       /\ c[j].op = "end" /\ ~c[j].ok
       /\ c[i].tid # c[j].tid
  /\ trace["s"].elements_ = 0

(* ---------------------------- C19 -------------------------------------- *)
\* C19: a start() that finds as many unmatched accepted starts as the
\* buffer has slots returns leaving the stored instants, both cursors and
\* elements_ as they are, and submits no event.
C19_StartOnFullChangesNothing ==
  [][\A t \in Threads :
       (/\ pc[t] = "st_body"
        /\ pc'[t] # "st_body"
        /\ Len(starts[cur[t]]) - Len(ends[cur[t]]) = TRACE_SIZE_INIT)
         => /\ trace[cur[t]].elements_ = TRACE_SIZE_INIT
            /\ trace' = trace
            /\ pushed' = pushed
            /\ trace_queue' = trace_queue
            /\ ev' = ev
            /\ starts' = starts
            /\ pc'[t] = tret[t]]_vars

\* a start() was rejected at a later instant than the pending ones, and
\* the ends that followed were matched with the starts stored before it
C19_Witness ==
  LET c == calls["s"]
      p == PushedOf("s")
  IN
  /\ Len(c) >= TRACE_SIZE_INIT + 2
  /\ \A i \in 1 .. TRACE_SIZE_INIT : c[i].op = "start" /\ c[i].ok
  /\ c[TRACE_SIZE_INIT + 1].op = "start" /\ ~c[TRACE_SIZE_INIT + 1].ok
  /\ Len(p) = TRACE_SIZE_INIT
  /\ \A k \in 1 .. Len(p) : p[k].arg[2] = starts["s"][k]
  /\ p[1].arg[2] # p[Len(p)].arg[2]
  /\ trace["s"].elements_ = 0

(* ---------------------------- C13 -------------------------------------- *)
\* C13: registerTrace(id, session) leaves id with a NamedSharedTrace as
\* constructed, whatever was pending on the one it replaces; and an
\* endTrace(id) that finds no start accepted since the latest registration
\* of id returns without submitting an event and without changing a trace.
C13_ReRegistrationDiscardsPending ==
  [][\A t \in Threads :
       /\ (pc[t] = "rr_body" /\ pc'[t] # "rr_body") =>
            /\ trace'[cur[t]] = FreshTrace
            /\ traces_' = traces_ \cup {cur[t]}
            /\ \A id \in Ids \ {cur[t]} : trace'[id] = trace[id]
            /\ pushed' = pushed
       /\ (/\ pc[t] = "en_check" /\ pc'[t] # "en_check"
           /\ cur[t] \in Ids
           /\ starts[cur[t]] = <<>>) =>
            /\ trace' = trace
            /\ pushed' = pushed
            /\ trace_queue' = trace_queue
            /\ ev' = ev
            /\ pc'[t] = "reg_unlock"]_vars

\* a thread's startTrace(id) was accepted and never matched, the other
\* thread registered id again (the log of id starts again), and the
\* endTrace(id) the first thread made next was rejected and is returning
C13_Witness ==
  \E id \in Ids, t \in Threads :
    /\ span[t].id = id /\ span[t].ret >= 0 /\ span[t].call >= 0
    /\ calls[id] = <<[op |-> "end", tid |-> t, ok |-> FALSE]>>
    /\ PushedOf(id) = <<>>
    /\ trace[id] = FreshTrace
    /\ pc[t] = "reg_unlock"

(* ---------------------------- C15 -------------------------------------- *)
\* C15: the events submitted by a thread are those of the TraceGuard
\* objects it has destroyed, one each and in that order: a guard still
\* alive has submitted nothing, and the event of a destroyed guard carries
\* its name, the instant of its construction and the instant of its
\* destruction, the second not before the first.
C15_GuardSubmitsOnceAtDestruction ==
  \A t \in Threads :
    LET p == PushesOf(t)
        entering == IF pc[t] \in {"rt_lock", "rt_push"} THEN 1 ELSE 0
    IN
    /\ Len(p) + entering = guard[t].ended
    /\ guard[t].built = guard[t].ended + (IF guard[t].alive THEN 1 ELSE 0)
    /\ Len(guard[t].lives) = guard[t].ended
    /\ \A k \in 1 .. Len(p) :
         /\ p[k].arg = guard[t].lives[k]
         /\ p[k].arg[3] >= p[k].arg[2]
         /\ p[k].ev.end_time >= p[k].ev.start_time
    /\ entering = 1 =>
         /\ raw[t] = guard[t].lives[guard[t].ended]
         /\ ev[t] = MakeEvent(raw[t][1], raw[t][2], raw[t][3])
    /\ guard[t].alive => guard[t].start_time_ = guard[t].born

\* both threads have destroyed a guard that lived while the clock advanced,
\* and one of them has a second guard alive, which has submitted nothing
C15_Witness ==
  /\ \A t \in Threads :
       /\ Len(PushesOf(t)) = 1
       /\ PushesOf(t)[1].arg[3] > PushesOf(t)[1].arg[2]
       /\ pc[t] = "idle"
  /\ \E t \in Threads : guard[t].alive /\ guard[t].built = 2
  /\ Len(pushed) = 2

(* ---------------------------- C16 -------------------------------------- *)
HasChar(str, c) == \E i \in 1 .. Len(str) : str[i] = c

\* str without everything from its first "(" onward: the longest prefix of
\* str that holds no "("
DropFromFirstParen(str) ==
  LET n == CHOOSE n \in 0 .. Len(str) :
             /\ ~HasChar(SubSeq(str, 1, n), "(")
             /\ n = Len(str) \/ str[n + 1] = "("
  IN SubSeq(str, 1, n)

\* what follows the last space of str: the longest suffix of str that
\* holds no space
AfterLastSpace(str) ==
  LET n == CHOOSE n \in 0 .. Len(str) :
             /\ ~HasChar(SubSeq(str, Len(str) - n + 1, Len(str)), " ")
             /\ n = Len(str) \/ str[Len(str) - n] = " "
  IN SubSeq(str, Len(str) - n + 1, Len(str))

\* "function_1(std::string args)", "function_1()" and "function_1"
Function1WithArgs ==
  <<"f", "u", "n", "c", "t", "i", "o", "n", "_", "1", "(", "s", "t",
    "d", ":", ":", "s", "t", "r", "i", "n", "g", " ", "a", "r", "g", "s",
    ")">>

Function1NoArgs ==
  <<"f", "u", "n", "c", "t", "i", "o", "n", "_", "1", "(", ")">>

Function1 ==
  <<"f", "u", "n", "c", "t", "i", "o", "n", "_", "1">>

\* C16: the name a TraceGuard extracts from the string it is constructed
\* with is what follows the last space of the part of the string before
\* its first "(", and holds neither "(" nor a space; the two strings of the
\* test give "function_1".
C16_ExtractTraceName ==
  /\ \A t \in Threads :
       guard[t].built > 0 =>
         /\ guard[t].trace_name_ =
              AfterLastSpace(DropFromFirstParen(guard[t].signature))
         /\ ~HasChar(guard[t].trace_name_, "(")
         /\ ~HasChar(guard[t].trace_name_, " ")
  /\ extract_trace_name(Function1WithArgs) = Function1
  /\ extract_trace_name(Function1NoArgs) = Function1

\* a guard was constructed with " f( ": a space before the name and one
\* after the parenthesis
C16_Witness ==
  /\ guard[1].built = 1
  /\ guard[1].signature = <<" ", "f", "(", " ">>
  /\ guard[1].trace_name_ = <<"f">>

(* ---------------------------- C12 -------------------------------------- *)
\* since its registration id has seen startTrace(id), endTrace(id),
\* startTrace(id), endTrace(id), ... from one thread, every startTrace
\* followed by its endTrace
TracedInPairs(id) ==
  /\ id \in traces_
  /\ Len(calls[id]) % 2 = 0
  /\ \A i \in 1 .. Len(calls[id]) :
       /\ calls[id][i].op = IF i % 2 = 1 THEN "start" ELSE "end"
       /\ calls[id][i].tid = calls[id][1].tid

\* the lines of the trace file whose name field is id
LinesNamed(id) ==
  {i \in 1 .. Len(trace_file) : Fields(trace_file[i])[1] = id}

\* C12: once stop() has returned, an identifier that was registered and
\* then traced in startTrace/endTrace pairs has exactly one line per pair
\* in the trace file, with its name, whose end offset is at least its start
\* offset plus the time between the return of startTrace and the call of
\* endTrace; identifiers traced once each give as many lines as there are
\* identifiers.
C12_OneLinePerRegisteredPair ==
  (stopReturned /\ pc[1] = "idle") =>
    /\ \A i \in 1 .. Len(trace_file) :
         /\ WellFormed(trace_file[i])
         /\ i <= Len(pushed)
    /\ \A id \in Ids :
         TracedInPairs(id) =>
           /\ Cardinality(LinesNamed(id)) = Len(calls[id]) \div 2
           /\ \A i \in LinesNamed(id) :
                /\ pushed[i].slept >= 0
                /\ Fields(trace_file[i])[3] >=
                     Fields(trace_file[i])[2] + pushed[i].slept
    /\ (\A id \in traces_ : TracedInPairs(id) /\ Len(calls[id]) = 2) =>
         Len(trace_file) = Cardinality(traces_)

\* two identifiers were registered and traced once each, the clock
\* advancing between a startTrace and its endTrace, and stop() has returned
\* with two lines in the file
C12_Witness ==
  /\ stopReturned /\ pc[1] = "idle"
  /\ traces_ = Ids
  /\ \A id \in Ids : TracedInPairs(id) /\ Len(calls[id]) = 2
  /\ Len(trace_file) = 2
  /\ Fields(trace_file[1])[1] # Fields(trace_file[2])[1]
  /\ \E i \in 1 .. 2 :
       /\ pushed[i].slept >= 1
       /\ Fields(trace_file[i])[3] > Fields(trace_file[i])[2]

(* ---------------------------- C21 -------------------------------------- *)
\* C21: a thread that is inside the register_trace call made by end() does
\* not hold trace_mutex_ of the NamedSharedTrace it is ending.
C21_SubmitOutsideTraceMutex ==
  \A t \in Threads :
    (pc[t] \in {"rt_lock", "rt_push", "rt_notify"} /\ ret[t] = "en_pop")
      => trace_mutex_[cur[t]] # t

(* ---------------------------- C22 -------------------------------------- *)
\* C22: a thread that pushes holds queue_mutex; every step of the consumer
\* that reads or pops trace_queue, the evaluation of empty() in its loop
\* condition included, is made holding queue_mutex; and the consumer is
\* never about to evaluate empty() while a producer is about to push.
C22_QueueAccessUnderMutex ==
  /\ [](\A t \in Threads : pc[t] = "rt_push" => queue_mutex = t)
  /\ [](wpc \in {"pred", "drain"} => queue_mutex = CONSUMER)
  /\ [][(wpc = "check" /\ wpc' # wpc /\ ~running) =>
          queue_mutex = CONSUMER]_vars
  /\ [](~(/\ wpc = "check" /\ ~running
          /\ \E t \in Threads : pc[t] = "rt_push"))

(* ---------------------------- C23 -------------------------------------- *)
\* once closed the trace file stays closed and gets no more lines
ClosedForGood ==
  [][file_state = "closed" =>
       (file_state' = "closed" /\ trace_file' = trace_file)]_vars

\* C23 as stated: the trace file is closed once, when running is false and
\* trace_queue is empty, and nothing is written after that.
C23_ClosedOnceWithQueueEmpty ==
  /\ ClosedForGood
  /\ [][(file_state # "closed" /\ file_state' = "closed") =>
          (~running /\ trace_queue = <<>>)]_vars

\* C23 (amended): the trace file is closed once, when running is false and
\* after the consumer found trace_queue empty in the last test of its loop:
\* at that moment the events pushed before that test all have their line
\* and the queue holds exactly those pushed after it; nothing is written
\* after the close.
C23_ClosedOnceAfterLastTest ==
  /\ ClosedForGood
  /\ [][(file_state # "closed" /\ file_state' = "closed") =>
          /\ ~running
          /\ file_state = "open"
          /\ Len(trace_file) + Len(trace_queue) = Len(pushed)
          /\ \A i \in 1 .. Len(pushed) :
               pushed[i].live <=> i <= Len(trace_file)
          /\ \A k \in 1 .. Len(trace_queue) :
               trace_queue[k] = pushed[Len(trace_file) + k].ev]_vars

\* the file was closed with lines in it while an event pushed after the
\* last test of the loop was in the queue
C23_Witness ==
  /\ file_state = "closed"
  /\ wpc = "done"
  /\ Len(trace_file) >= 2
  /\ trace_queue # <<>>
  /\ ~running

(* ---------------------------- C24 -------------------------------------- *)
\* C24: under fair scheduling the k-th event pushed, if pushed while running
\* is true, eventually has its line in the trace file, whether stop() is
\* called or not; and a consumer waiting on cv while trace_queue is not
\* empty is woken up.
C24_EnqueuedWhileRunningIsWritten ==
  /\ \A k \in 1 .. MaxFairOps :
       (Len(pushed) >= k /\ running) ~> (Len(trace_file) >= k)
  /\ (wpc = "waiting" /\ trace_queue # <<>>) ~> (wpc # "waiting")

\* stop() was not called, one event has its line already, and the consumer
\* is waiting on cv while the next event is in the queue
C24_Witness ==
  /\ stopCalls = 0
  /\ running
  /\ Len(trace_file) >= 1
  /\ wpc = "waiting"
  /\ trace_queue # <<>>

(* ---------------------------- C25 -------------------------------------- *)
\* C25: whenever no thread holds trace_mutex_ of a NamedSharedTrace (no
\* thread is in the body of its start() or end()), counter_pop_ and
\* counter_push_ are below start_times_.size(), counter_push_ is
\* counter_pop_ plus elements_ modulo that size, and the two are equal
\* exactly when elements_ is 0 or that size.
C25_CursorsAgreeWithCount ==
  \A o \in DirectTraces :
    LET tr == trace[o]
        size == Len(tr.start_times_)
    IN  trace_mutex_[o] = FREE =>
          /\ tr.counter_pop_ \in 0 .. (size - 1)
          /\ tr.counter_push_ \in 0 .. (size - 1)
          /\ (tr.counter_push_ + size - tr.counter_pop_) % size
               = tr.elements_ % size
          /\ (tr.counter_push_ = tr.counter_pop_)
               <=> tr.elements_ \in {0, size}

\* both cursors have wrapped to the same inner slot of a full buffer, and
\* no thread is inside start() or end()
C25_Witness ==
  /\ \A t \in Threads : pc[t] = "idle"
  /\ trace_mutex_["s"] = FREE
  /\ trace["s"].elements_ = TRACE_SIZE_INIT
  /\ trace["s"].counter_push_ = 1
  /\ trace["s"].counter_pop_ = 1

(* ---------------------------- C26 -------------------------------------- *)
\* the threads of the program: the application threads and the consumer
Agents == Threads \cup {CONSUMER}

\* the mutexes: mutex_ of the TraceRegistry, trace_mutex_ of every
\* NamedSharedTrace, queue_mutex of the TraceSession, with their place in
\* the order of acquisition
MutexRank(m) ==
  IF m = <<"mutex_">> THEN 1 ELSE IF m = <<"queue_mutex">> THEN 3 ELSE 2

Mutexes ==
  {<<"mutex_">>, <<"queue_mutex">>} \cup {<<"trace_mutex_", o>> : o \in TraceNames}

Holder(m) ==
  IF m = <<"mutex_">> THEN mutex_
  ELSE IF m = <<"queue_mutex">> THEN queue_mutex
  ELSE trace_mutex_[m[2]]

HeldBy(a) == {m \in Mutexes : Holder(m) = a}

\* the mutexes agent a is blocked on (at most one)
WaitsFor(a) ==
  IF a = CONSUMER
    THEN IF wpc \in {"lock", "relock"} THEN {<<"queue_mutex">>} ELSE {}
  ELSE IF pc[a] \in {"rr_lock", "rs_lock", "re_lock"} THEN {<<"mutex_">>}
  ELSE IF pc[a] \in {"st_lock", "en_lock"} THEN {<<"trace_mutex_", cur[a]>>}
  ELSE IF pc[a] = "rt_lock" THEN {<<"queue_mutex">>}
  ELSE {}

\* a is blocked on a mutex that b holds
BlockedBy(a, b) == \E m \in WaitsFor(a) : Holder(m) = b

\* C26: no thread waits, directly or through other threads, for a mutex it
\* holds itself; a thread that waits for a mutex holds only mutexes that
\* come before it in the order mutex_, trace_mutex_, queue_mutex; the
\* consumer holds nothing but queue_mutex; and a thread outside every call
\* holds nothing.
C26_NoMutexDeadlock ==
  /\ \A a \in Agents : ~BlockedBy(a, a)
  /\ \A a, b \in Agents : ~(BlockedBy(a, b) /\ BlockedBy(b, a))
  /\ \A a, b, c \in Agents :
       ~(BlockedBy(a, b) /\ BlockedBy(b, c) /\ BlockedBy(c, a))
  /\ \A a \in Agents : \A w \in WaitsFor(a) : \A m \in HeldBy(a) :
       MutexRank(m) < MutexRank(w)
  /\ HeldBy(CONSUMER) \subseteq {<<"queue_mutex">>}
  /\ \A t \in Threads : pc[t] = "idle" => HeldBy(t) = {}

\* a thread inside endTrace holds mutex_ and trace_mutex_ of the trace and
\* waits for queue_mutex, which the consumer holds, while the other thread
\* waits for mutex_
C26_Witness ==
  \E t, u \in Threads :
    /\ t # u
    /\ pc[t] = "rt_lock"
    /\ HeldBy(t) = {<<"mutex_">>, <<"trace_mutex_", cur[t]>>}
    /\ queue_mutex = CONSUMER
    /\ WaitsFor(u) = {<<"mutex_">>}

(* ---------------------------- C27 -------------------------------------- *)
\* thread t is inside the start() or end() that startTrace or endTrace
\* forwarded to the NamedSharedTrace of id
InForwarded(t, id) ==
  /\ cur[t] = id
  /\ tret[t] = "reg_unlock"
  /\ \/ pc[t] \in {"st_lock", "st_body", "en_lock", "en_check", "en_pop",
                    "reg_unlock"}
     \/ pc[t] \in {"rt_lock", "rt_push", "rt_notify"} /\ ret[t] = "en_pop"

\* C27: a thread inside a forwarded start() or end() holds mutex_, and when
\* registerTrace is about to replace the NamedSharedTrace of an identifier
\* it holds mutex_, no thread is inside a forwarded call and trace_mutex_ of
\* the object it destroys is free.
C27_NoReplacementUnderACall ==
  /\ \A t \in Threads : \A id \in Ids : InForwarded(t, id) => mutex_ = t
  /\ \A t \in Threads :
       pc[t] = "rr_body" =>
         /\ mutex_ = t
         /\ trace_mutex_[cur[t]] = FREE
         /\ \A u \in Threads : \A id \in Ids : ~InForwarded(u, id)

\* a thread is inside the end() forwarded by endTrace(id), with a start
\* pending, while the other thread waits for mutex_ in registerTrace(id)
C27_Witness ==
  \E t, u \in Threads :
    /\ InForwarded(t, cur[t])
    /\ pc[t] = "rt_push"
    /\ pc[u] = "rr_lock"
    /\ cur[u] = cur[t]

(* ---------------------------- C28 -------------------------------------- *)
\* the events of the trace named o that are in the queue, oldest first
QueuedOf(o) == SelectSeq(trace_queue, LAMBDA e : e.trace_name = o)

\* C28: the events that the end() calls of the threads have pushed for one
\* NamedSharedTrace are in the queue (which the consumer writes oldest
\* first) with start instants and end instants that never decrease.
C28_EventsOfATraceInMatchingOrder ==
  \A o \in DirectTraces :
    /\ Len(QueuedOf(o)) = Len(PushedOf(o))
    /\ \A i, j \in 1 .. Len(QueuedOf(o)) :
         i < j =>
           /\ QueuedOf(o)[i].start_time <= QueuedOf(o)[j].start_time
           /\ QueuedOf(o)[i].end_time <= QueuedOf(o)[j].end_time

\* the event of an earlier start is in the queue; a thread inside end() is
\* pushing the event of a later start, holding trace_mutex_, and the other
\* thread has called end() too and waits for trace_mutex_
C28_Witness ==
  \E t, u \in Threads :
    /\ Len(QueuedOf("s")) >= 1
    /\ pc[t] = "rt_push" /\ ret[t] = "en_pop" /\ cur[t] = "s"
    /\ ev[t].start_time > QueuedOf("s")[Len(QueuedOf("s"))].start_time
    /\ pc[u] = "en_lock" /\ cur[u] = "s"
    /\ trace_mutex_["s"] = t

====
